---- MODULE Spec2Model ----
(***************************************************************************)
(* LLMAPIHandlerFactory (skyvern/forge/sdk/api/llm/api_handler_factory.py) *)
(*                                                                         *)
(* The factory resolves a provider key to a configuration and returns an   *)
(* asynchronous handler (a closure over the key and the configuration).    *)
(* One invocation of the handler is a coroutine: it is modelled as a       *)
(* process whose steps are the segments between two awaits.  Each awaited  *)
(* collaborator call either returns or raises.  The class attribute        *)
(* _custom_handlers and the process-wide settings are global state.        *)
(***************************************************************************)
EXTENDS Integers, Sequences, FiniteSets, TLC

\* ------------------------------------------------------------------ bounds
MaxShots == 2        \* longest screenshot list a caller supplies

\* ------------------------------------------------------- optional values
\* Python's None and a present value; `if step:` is `step.some`.
None == [some |-> FALSE]
Some(v) == [some |-> TRUE, val |-> v]

\* ------------------------------------------------------------ input sets
Procs == {"inv1", "inv2"}   \* slots for handler invocations (coroutines)
Bytes == {"png1", "png2"}
Step1 == [task_id |-> "t1", step_id |-> "s1", organization_id |-> "o1"]
Step2 == [task_id |-> "t2", step_id |-> "s2", organization_id |-> "o2"]
Steps == {Step1, Step2}
StepChoices == {None} \cup {Some(s) : s \in Steps}

RECURSIVE SeqsUpTo(_, _)
SeqsUpTo(S, n) ==
  IF n = 0 THEN {<<>>}
  ELSE LET shorter == SeqsUpTo(S, n - 1)
       IN shorter \cup {Append(s, x) : s \in {t \in shorter : Len(t) = n - 1}, x \in S}

\* screenshots: list[bytes] | None
ScreenshotChoices == {None} \cup {Some(s) : s \in SeqsUpTo(Bytes, MaxShots)}

\* parameters: dict[str, Any] | None.  A dict is a function from option names.
EmptyDict == [k \in {} |-> 0]
ParameterChoices ==
  {None, Some(EmptyDict), Some([max_tokens |-> 7]), Some([model |-> "other-model"])}

\* SettingsManager.get_settings(): the two fields the factory reads.
\* LLM_CONFIG_TEMPERATURE is kept in tenths (1 stands for 0.1).
InitialSettings == [LLM_CONFIG_MAX_TOKENS |-> 500, LLM_CONFIG_TEMPERATURE |-> 1]
SettingsChoices ==
  {InitialSettings, [LLM_CONFIG_MAX_TOKENS |-> 800, LLM_CONFIG_TEMPERATURE |-> 7]}

\* Keys a caller may pass to get_llm_api_handler / register_custom_handler.
ConfigKeys == {"OPENAI_GPT4V", "OPENAI_GPT35"}
UnknownKeys == {"NO_SUCH_LLM"}
AllKeys == ConfigKeys \cup UnknownKeys
CustomKeys == {"custom_a", "custom_b"}
CustomHandlers == {"handlerA", "handlerB"}

\* What litellm.acompletion may return.
Responses ==
  {[content |-> "{\"a\": 1}", cost |-> 3],
   [content |-> "{\"b\": 2}", cost |-> 5],
   [content |-> "not json", cost |-> 4]}

\* --------------------------------------------------------- collaborators
\* LLMConfigRegistry: the read-only configuration registry.
Configs ==
  [k \in ConfigKeys |->
     IF k = "OPENAI_GPT4V"
     THEN [model_name |-> "gpt-4-vision-preview", supports_vision |-> TRUE]
     ELSE [model_name |-> "gpt-3.5-turbo", supports_vision |-> FALSE]]

\* LLMConfigRegistry.get_config(llm_key): the configuration, or a raise.
get_config(llm_key) ==
  IF llm_key \in DOMAIN Configs
  THEN [ok |-> TRUE, config |-> Configs[llm_key]]
  ELSE [ok |-> FALSE, error |-> "ConfigurationNotFoundError"]

\* str.encode("utf-8") and json.dumps(...).encode("utf-8"): the bytes written.
Utf8(text) == [encoding |-> "utf-8", text |-> text]
JsonDumps(value) == [json |-> value]
JsonBytes(value) == Utf8(JsonDumps(value))

\* {**a, **b}: keys of b win.
DictMerge(a, b) ==
  [k \in DOMAIN a \cup DOMAIN b |-> IF k \in DOMAIN b THEN b[k] ELSE a[k]]

\* `screenshots or []`
OrEmpty(screenshots) == IF screenshots.some THEN screenshots.val ELSE <<>>

\* llm_messages_builder(prompt, screenshots): one user message whose content is
\* the text part followed by one image part per screenshot.
ImagePart(shot) == [type |-> "image_url", image_url |-> [base64 |-> shot]]
llm_messages_builder(prompt, screenshots) ==
  <<[role |-> "user",
     content |-> <<[type |-> "text", text |-> prompt]>> \o
                 [i \in 1..Len(OrEmpty(screenshots)) |-> ImagePart(OrEmpty(screenshots)[i])]]>>

\* parse_api_response(response): the structured mapping, or a raise when the
\* content is not a JSON object.
parse_api_response(response) ==
  IF response.content = "not json"
  THEN [ok |-> FALSE, error |-> "InvalidLLMResponseFormat"]
  ELSE [ok |-> TRUE, value |-> [parsed |-> response.content]]

\* litellm.completion_cost(completion_response=response)
completion_cost(response) == response.cost

\* response.model_dump_json(indent=2).encode("utf-8")
ModelDumpJson(response) == Utf8([dump |-> response])

\* Exceptions.  An exception is its type, the key it carries and its __cause__.
Exc(type) == [type |-> type, llm_key |-> "", cause |-> "none"]
LLMProviderError(llm_key, e) ==
  [type |-> "LLMProviderError", llm_key |-> llm_key, cause |-> e.type]
RemoteErrors == {"OpenAIError", "TimeoutError"}

\* ------------------------------------------------------------------ state
VARIABLES
  settings,         \* SettingsManager's current settings
  custom_handlers,  \* LLMAPIHandlerFactory._custom_handlers
  handlers,         \* closures returned by get_llm_api_handler so far
  last,             \* outcome of the latest factory call (register / resolve)
  artifacts,        \* app.ARTIFACT_MANAGER: artifacts created, in order
  costs,            \* app.DATABASE: update_step calls applied, in order
  pc,               \* per invocation: the await it is suspended at
  args,             \* per invocation: the arguments it was called with
  loc,              \* per invocation: the coroutine's local variables
  trace,            \* per invocation: collaborator calls made so far
  remote,           \* per invocation: litellm.acompletion calls made
  outcome           \* per invocation: returned value or raised exception

vars == <<settings, custom_handlers, handlers, last, artifacts, costs,
          pc, args, loc, trace, remote, outcome>>
factoryVars == <<custom_handlers, handlers, last>>
invVars == <<pc, args, loc, trace, remote, outcome>>

NoArgs == [handler |-> None, prompt |-> None, step |-> None,
           screenshots |-> None, parameters |-> None, settings |-> None]
NoLocals == [screenshots |-> None, parameters |-> None, i |-> 0,
             messages |-> None, response |-> None, parsed_response |-> None,
             art_base |-> 0, cost_base |-> 0]

Init ==
  /\ settings = InitialSettings
  /\ custom_handlers = [k \in {} |-> "none"]
  /\ handlers = {}
  /\ last = [op |-> "none", key |-> "", result |-> "none"]
  /\ artifacts = <<>>
  /\ costs = <<>>
  /\ pc = [p \in Procs |-> "idle"]
  /\ args = [p \in Procs |-> NoArgs]
  /\ loc = [p \in Procs |-> NoLocals]
  /\ trace = [p \in Procs |-> <<>>]
  /\ remote = [p \in Procs |-> <<>>]
  /\ outcome = [p \in Procs |-> None]

\* ------------------------------------------------- factory-level functions
\* Faulty variant: the defaults are read once, when the module is loaded.
get_api_parameters_frozen ==
  [max_tokens |-> InitialSettings.LLM_CONFIG_MAX_TOKENS,
   temperature |-> InitialSettings.LLM_CONFIG_TEMPERATURE]

\* get_api_parameters(): read from the settings at the time of the call.
get_api_parameters ==
  [max_tokens |-> settings.LLM_CONFIG_MAX_TOKENS,
   temperature |-> settings.LLM_CONFIG_TEMPERATURE]

\* Faulty variant: the handler is stored before the duplicate check.
register_stores_then_checks(reg, llm_key, handler) ==
  [raised |-> IF llm_key \in DOMAIN reg THEN "DuplicateCustomLLMProviderError" ELSE "none",
   registry |-> DictMerge(reg, [k \in {llm_key} |-> handler])]

\* Faulty variant: no duplicate check, the latest registration wins.
register_without_check(reg, llm_key, handler) ==
  [raised |-> "none", registry |-> DictMerge(reg, [k \in {llm_key} |-> handler])]

\* register_custom_handler(llm_key, handler) on registry reg: the exception
\* raised (if any) and the registry afterwards.
register_custom_handler(reg, llm_key, handler) ==
  IF llm_key \in DOMAIN reg
  THEN [raised |-> "DuplicateCustomLLMProviderError", registry |-> reg]
  ELSE [raised |-> "none", registry |-> DictMerge(reg, [k \in {llm_key} |-> handler])]

\* Faulty variant: an unknown key falls back to a default configuration.
get_llm_api_handler_with_fallback(llm_key) ==
  LET found == get_config(llm_key)
  IN [raised |-> "none",
      handler |-> [llm_key |-> llm_key,
                   llm_config |-> IF found.ok THEN found.config
                                  ELSE Configs["OPENAI_GPT35"]]]

\* get_llm_api_handler(llm_key): the closure over llm_key and llm_config, or
\* the exception get_config raised.
get_llm_api_handler(llm_key) ==
  LET found == get_config(llm_key)
  IN IF found.ok
     THEN [raised |-> "none",
           handler |-> [llm_key |-> llm_key, llm_config |-> found.config]]
     ELSE [raised |-> found.error]

\* ------------------------------------------ the handler's local decisions
\* Faulty variant: the caller's options are laid over the defaults.
ResolveParameters_merges(parameters) ==
  IF parameters.some THEN DictMerge(get_api_parameters, parameters.val)
  ELSE get_api_parameters

\* line 33-34: parameters default
ResolveParameters(parameters) ==
  IF parameters.some THEN parameters.val ELSE get_api_parameters

\* Faulty variant: the screenshots are passed on whatever the configuration.
VisionFilter_keeps(llm_config, screenshots) == screenshots

\* line 50-51: screenshots are dropped when the model has no vision support
VisionFilter(llm_config, screenshots) ==
  IF ~llm_config.supports_vision THEN None ELSE screenshots

\* line 58-64: the dict dumped into the LLM_REQUEST artifact
RequestPayload(llm_config, messages, parameters) ==
  DictMerge([model |-> llm_config.model_name, messages |-> messages], parameters)

\* line 70-74: acompletion(model=..., messages=..., **parameters).  A key of
\* parameters that repeats a named argument is a TypeError at the call.
CompletionCall(llm_config, messages, parameters) ==
  [model |-> llm_config.model_name, messages |-> messages, kwargs |-> parameters,
   type_error |-> (DOMAIN parameters \cap {"model", "messages"} # {})]

\* Faulty variant: the except clauses re-raise the error as it is.
OnRemoteError_reraises(llm_key, e) == e

\* line 75-79: both except clauses wrap the error
OnRemoteError(llm_key, e) == LLMProviderError(llm_key, e)

\* Faulty variant: the try block spans the whole body.
Uncaught_wrapped(llm_key, e) == LLMProviderError(llm_key, e)

\* line 36-65 and 80-99 are outside the try block: an exception of an artifact
\* write, of the message builder, of the cost update or of the parser leaves
\* the coroutine as it is.
Uncaught(llm_key, e) == e

\* Faulty variants of the control flow.
AfterPrompt_skips_screenshots(screenshots) == "llm_messages_builder"
AfterBuild_ignores_step(step) == "LLM_REQUEST"
AfterResponse_skips_cost == "parse_api_response"

\* Faulty variant: the response is parsed before it is persisted and costed.
AfterCompletion_parse_first(step) == "parse_api_response"

\* Faulty variant: the cost is reported before the response is persisted.
AfterCompletion_cost_first(step) ==
  IF step.some THEN "update_step" ELSE "parse_api_response"

\* Control flow: the await reached next.
AfterInvoke(step) == IF step.some THEN "LLM_PROMPT" ELSE "llm_messages_builder"
AfterPrompt(screenshots) ==
  IF Len(OrEmpty(screenshots)) > 0 THEN "SCREENSHOT_LLM" ELSE "llm_messages_builder"
AfterScreenshot(i, screenshots) ==
  IF i < Len(OrEmpty(screenshots)) THEN "SCREENSHOT_LLM" ELSE "llm_messages_builder"
AfterBuild(step) == IF step.some THEN "LLM_REQUEST" ELSE "acompletion"
AfterRequest == "acompletion"
AfterCompletion(step) == IF step.some THEN "LLM_RESPONSE" ELSE "parse_api_response"
AfterResponse == "update_step"
AfterCost == "parse_api_response"
AfterParse(step) == IF step.some THEN "LLM_RESPONSE_PARSED" ELSE "return"

\* ArtifactManager.create_artifact(step=step, artifact_type=..., data=...) as
\* called by invocation p; step is the handler's argument as it was passed.
Artifact(p, step, artifact_type, data) ==
  [step |-> step, artifact_type |-> artifact_type, data |-> data, by |-> p]

\* Faulty variant: the Step is taken from a variable the invocations share.
CostUpdateFor_shared_step(step, llm_cost) ==
  [task_id |-> Step1.task_id, step_id |-> Step1.step_id,
   organization_id |-> Step1.organization_id, incremental_cost |-> llm_cost]

\* app.DATABASE.update_step(...) as called on line 87-92
CostUpdateFor(step, llm_cost) ==
  [task_id |-> step.task_id, step_id |-> step.step_id,
   organization_id |-> step.organization_id, incremental_cost |-> llm_cost]

\* ---------------------------------------------------------------- actions
\* SettingsManager's settings are replaced by the environment.
ChangeSettings(s) ==
  /\ s # settings
  /\ settings' = s
  /\ UNCHANGED <<factoryVars, artifacts, costs, invVars>>

Register(llm_key, handler) ==
  LET r == register_custom_handler(custom_handlers, llm_key, handler)
  IN /\ custom_handlers' = r.registry
     /\ last' = [op |-> "register", key |-> llm_key, result |-> r.raised]
     /\ UNCHANGED <<settings, handlers, artifacts, costs, invVars>>

Resolve(llm_key) ==
  LET r == get_llm_api_handler(llm_key)
  IN /\ handlers' = IF r.raised = "none" THEN handlers \cup {r.handler} ELSE handlers
     /\ last' = [op |-> "resolve", key |-> llm_key, result |-> r.raised]
     /\ UNCHANGED <<settings, custom_handlers, artifacts, costs, invVars>>

\* The invocation ends: `return value` or an exception leaving the coroutine.
Return(p, value, events) ==
  /\ pc' = [pc EXCEPT ![p] = "done"]
  /\ outcome' = [outcome EXCEPT ![p] = Some([kind |-> "returned", value |-> value])]
  /\ trace' = [trace EXCEPT ![p] = @ \o events \o <<"return">>]

Raise(p, e, events) ==
  /\ pc' = [pc EXCEPT ![p] = "done"]
  /\ outcome' = [outcome EXCEPT ![p] = Some([kind |-> "raised", error |-> e])]
  /\ trace' = [trace EXCEPT ![p] = @ \o events \o <<"raise">>]

Goto(p, next, events) ==
  /\ pc' = [pc EXCEPT ![p] = next]
  /\ trace' = [trace EXCEPT ![p] = @ \o events]
  /\ UNCHANGED outcome

\* Faulty variant: the screenshots are discarded on entry, before any
\* artifact is written.
Invoke_filters_first(p, h, prompt, step, screenshots, parameters) ==
  /\ pc[p] = "idle"
  /\ h \in handlers
  /\ args' = [args EXCEPT ![p] =
       [handler |-> Some(h), prompt |-> Some(prompt), step |-> step,
        screenshots |-> screenshots, parameters |-> parameters,
        settings |-> Some(settings)]]
  /\ loc' = [loc EXCEPT ![p] =
       [NoLocals EXCEPT !.screenshots = VisionFilter(h.llm_config, screenshots),
                        !.parameters = Some(ResolveParameters(parameters)),
                        !.art_base = Len(artifacts),
                        !.cost_base = Len(costs)]]
  /\ pc' = [pc EXCEPT ![p] = AfterInvoke(step)]
  /\ trace' = [trace EXCEPT ![p] = <<>>]
  /\ remote' = [remote EXCEPT ![p] = <<>>]
  /\ outcome' = [outcome EXCEPT ![p] = None]
  /\ UNCHANGED <<settings, factoryVars, artifacts, costs>>

\* line 27-36: the call of the handler up to its first await
Invoke(p, h, prompt, step, screenshots, parameters) ==
  /\ pc[p] = "idle"
  /\ h \in handlers
  /\ args' = [args EXCEPT ![p] =
       [handler |-> Some(h), prompt |-> Some(prompt), step |-> step,
        screenshots |-> screenshots, parameters |-> parameters,
        settings |-> Some(settings)]]
  /\ loc' = [loc EXCEPT ![p] =
       [NoLocals EXCEPT !.screenshots = screenshots,
                        !.parameters = Some(ResolveParameters(parameters)),
                        !.art_base = Len(artifacts),
                        !.cost_base = Len(costs)]]
  /\ pc' = [pc EXCEPT ![p] = AfterInvoke(step)]
  /\ trace' = [trace EXCEPT ![p] = <<>>]
  /\ remote' = [remote EXCEPT ![p] = <<>>]
  /\ outcome' = [outcome EXCEPT ![p] = None]
  /\ UNCHANGED <<settings, factoryVars, artifacts, costs>>

\* line 37-41
PromptArtifact(p) ==
  /\ pc[p] = "LLM_PROMPT"
  /\ \E ok \in BOOLEAN :
       IF ok
       THEN /\ artifacts' = Append(artifacts,
                 Artifact(p, args[p].step, "LLM_PROMPT", Utf8(args[p].prompt.val)))
            /\ loc' = [loc EXCEPT ![p].i = 1]
            /\ Goto(p, AfterPrompt(loc[p].screenshots), <<"LLM_PROMPT">>)
       ELSE /\ Raise(p, Uncaught(args[p].handler.val.llm_key, Exc("ArtifactError")), <<"LLM_PROMPT">>)
            /\ UNCHANGED <<artifacts, loc>>
  /\ UNCHANGED <<settings, factoryVars, costs, args, remote>>

\* line 42-47: one pass of the loop
ScreenshotArtifact(p) ==
  /\ pc[p] = "SCREENSHOT_LLM"
  /\ \E ok \in BOOLEAN :
       IF ok
       THEN /\ artifacts' = Append(artifacts,
                 Artifact(p, args[p].step, "SCREENSHOT_LLM",
                          OrEmpty(loc[p].screenshots)[loc[p].i]))
            /\ loc' = [loc EXCEPT ![p].i = @ + 1]
            /\ Goto(p, AfterScreenshot(loc[p].i, loc[p].screenshots), <<"SCREENSHOT_LLM">>)
       ELSE /\ Raise(p, Uncaught(args[p].handler.val.llm_key, Exc("ArtifactError")), <<"SCREENSHOT_LLM">>)
            /\ UNCHANGED <<artifacts, loc>>
  /\ UNCHANGED <<settings, factoryVars, costs, args, remote>>

\* line 49-53
BuildMessages(p) ==
  /\ pc[p] = "llm_messages_builder"
  /\ LET h == args[p].handler.val
         kept == VisionFilter(h.llm_config, loc[p].screenshots)
     IN \E ok \in BOOLEAN :
          IF ok
          THEN /\ loc' = [loc EXCEPT ![p].screenshots = kept,
                                     ![p].messages =
                                        Some(llm_messages_builder(args[p].prompt.val, kept))]
               /\ Goto(p, AfterBuild(args[p].step), <<"llm_messages_builder">>)
          ELSE /\ loc' = [loc EXCEPT ![p].screenshots = kept]
               /\ Raise(p, Uncaught(args[p].handler.val.llm_key, Exc("BuilderError")), <<"llm_messages_builder">>)
  /\ UNCHANGED <<settings, factoryVars, artifacts, costs, args, remote>>

\* line 54-65
RequestArtifact(p) ==
  /\ pc[p] = "LLM_REQUEST"
  /\ LET h == args[p].handler.val
     IN \E ok \in BOOLEAN :
          IF ok
          THEN /\ artifacts' = Append(artifacts,
                    Artifact(p, args[p].step, "LLM_REQUEST",
                             JsonBytes(RequestPayload(h.llm_config, loc[p].messages.val,
                                                      loc[p].parameters.val))))
               /\ Goto(p, AfterRequest, <<"LLM_REQUEST">>)
          ELSE /\ Raise(p, Uncaught(args[p].handler.val.llm_key, Exc("ArtifactError")), <<"LLM_REQUEST">>)
               /\ UNCHANGED artifacts
  /\ UNCHANGED <<settings, factoryVars, costs, args, loc, remote>>

\* Faulty variant: a failed call is made once more before giving up.
RemoteCall_retries(p) ==
  /\ pc[p] = "acompletion"
  /\ LET h == args[p].handler.val
         c == CompletionCall(h.llm_config, loc[p].messages.val, loc[p].parameters.val)
         call == [model |-> c.model, messages |-> c.messages, kwargs |-> c.kwargs]
     IN \/ \E r \in Responses :
             /\ remote' = [remote EXCEPT ![p] = Append(@, [call |-> call, raised |-> "none"])]
             /\ loc' = [loc EXCEPT ![p].response = Some(r)]
             /\ Goto(p, AfterCompletion(args[p].step), <<"acompletion">>)
        \/ \E e \in RemoteErrors :
             /\ remote' = [remote EXCEPT ![p] = Append(@, [call |-> call, raised |-> e])]
             /\ IF Len(remote[p]) = 0
                THEN Goto(p, "acompletion", <<"acompletion">>)
                ELSE Raise(p, OnRemoteError(h.llm_key, Exc(e)), <<"acompletion">>)
             /\ UNCHANGED loc
  /\ UNCHANGED <<settings, factoryVars, artifacts, costs, args>>

\* Faulty variant: the wait for the provider is bounded, and the invocation
\* gives up although the provider has not answered.
RemoteCall_with_timeout(p) ==
  /\ pc[p] = "acompletion"
  /\ LET h == args[p].handler.val
         c == CompletionCall(h.llm_config, loc[p].messages.val, loc[p].parameters.val)
         call == [model |-> c.model, messages |-> c.messages, kwargs |-> c.kwargs]
     IN \/ \E r \in Responses :
             /\ remote' = [remote EXCEPT ![p] = Append(@, [call |-> call, raised |-> "none"])]
             /\ loc' = [loc EXCEPT ![p].response = Some(r)]
             /\ Goto(p, AfterCompletion(args[p].step), <<"acompletion">>)
        \/ \E e \in RemoteErrors :
             /\ remote' = [remote EXCEPT ![p] = Append(@, [call |-> call, raised |-> e])]
             /\ Raise(p, OnRemoteError(h.llm_key, Exc(e)), <<"acompletion">>)
             /\ UNCHANGED loc
        \/ /\ Raise(p, OnRemoteError(h.llm_key, Exc("TimeoutError")), <<"acompletion">>)
           /\ UNCHANGED <<remote, loc>>
  /\ UNCHANGED <<settings, factoryVars, artifacts, costs, args>>

\* line 66-79.  remote[p] records the call and the exception it raised.
RemoteCall(p) ==
  /\ pc[p] = "acompletion"
  /\ LET h == args[p].handler.val
         c == CompletionCall(h.llm_config, loc[p].messages.val, loc[p].parameters.val)
         call == [model |-> c.model, messages |-> c.messages, kwargs |-> c.kwargs]
     IN IF c.type_error
        THEN /\ remote' = [remote EXCEPT ![p] =
                  Append(@, [call |-> call, raised |-> "TypeError"])]
             /\ Raise(p, OnRemoteError(h.llm_key, Exc("TypeError")), <<"acompletion">>)
             /\ UNCHANGED loc
        ELSE \/ \E r \in Responses :
                  /\ remote' = [remote EXCEPT ![p] =
                       Append(@, [call |-> call, raised |-> "none"])]
                  /\ loc' = [loc EXCEPT ![p].response = Some(r)]
                  /\ Goto(p, AfterCompletion(args[p].step), <<"acompletion">>)
             \/ \E e \in RemoteErrors :
                  /\ remote' = [remote EXCEPT ![p] =
                       Append(@, [call |-> call, raised |-> e])]
                  /\ Raise(p, OnRemoteError(h.llm_key, Exc(e)), <<"acompletion">>)
                  /\ UNCHANGED loc
  /\ UNCHANGED <<settings, factoryVars, artifacts, costs, args>>

\* line 80-85
ResponseArtifact(p) ==
  /\ pc[p] = "LLM_RESPONSE"
  /\ \E ok \in BOOLEAN :
       IF ok
       THEN /\ artifacts' = Append(artifacts,
                 Artifact(p, args[p].step, "LLM_RESPONSE",
                          ModelDumpJson(loc[p].response.val)))
            /\ Goto(p, AfterResponse, <<"LLM_RESPONSE">>)
       ELSE /\ Raise(p, Uncaught(args[p].handler.val.llm_key, Exc("ArtifactError")), <<"LLM_RESPONSE">>)
            /\ UNCHANGED artifacts
  /\ UNCHANGED <<settings, factoryVars, costs, args, loc, remote>>

\* line 86-92.  litellm.completion_cost raises for a model it has no price
\* for; update_step is then never called.
CostUpdate(p) ==
  /\ pc[p] = "update_step"
  /\ \E result \in {"ok", "cost raises", "update raises"} :
       CASE result = "ok" ->
              /\ costs' = Append(costs,
                   CostUpdateFor(args[p].step.val, completion_cost(loc[p].response.val)))
              /\ Goto(p, AfterCost, <<"update_step">>)
         [] result = "cost raises" ->
              /\ Raise(p, Uncaught(args[p].handler.val.llm_key, Exc("NotFoundError")),
                       <<"completion_cost">>)
              /\ UNCHANGED costs
         [] result = "update raises" ->
              /\ Raise(p, Uncaught(args[p].handler.val.llm_key, Exc("DatabaseError")),
                       <<"update_step">>)
              /\ UNCHANGED costs
  /\ UNCHANGED <<settings, factoryVars, artifacts, args, loc, remote>>

\* line 93 (and line 100 when no step is given)
ParseResponse(p) ==
  /\ pc[p] = "parse_api_response"
  /\ LET r == parse_api_response(loc[p].response.val)
     IN IF ~r.ok
        THEN /\ Raise(p, Uncaught(args[p].handler.val.llm_key, Exc(r.error)), <<"parse_api_response">>)
             /\ UNCHANGED loc
        ELSE /\ loc' = [loc EXCEPT ![p].parsed_response = Some(r.value)]
             /\ IF AfterParse(args[p].step) = "return"
                THEN Return(p, r.value, <<"parse_api_response">>)
                ELSE Goto(p, AfterParse(args[p].step), <<"parse_api_response">>)
  /\ UNCHANGED <<settings, factoryVars, artifacts, costs, args, remote>>

\* line 94-100
ParsedArtifact(p) ==
  /\ pc[p] = "LLM_RESPONSE_PARSED"
  /\ \E ok \in BOOLEAN :
       IF ok
       THEN /\ artifacts' = Append(artifacts,
                 Artifact(p, args[p].step, "LLM_RESPONSE_PARSED",
                          JsonBytes(loc[p].parsed_response.val)))
            /\ Return(p, loc[p].parsed_response.val, <<"LLM_RESPONSE_PARSED">>)
       ELSE /\ Raise(p, Uncaught(args[p].handler.val.llm_key, Exc("ArtifactError")), <<"LLM_RESPONSE_PARSED">>)
            /\ UNCHANGED artifacts
  /\ UNCHANGED <<settings, factoryVars, costs, args, loc, remote>>

\* One step of the coroutine of invocation p.
HandlerStep(p) ==
  \/ PromptArtifact(p)
  \/ ScreenshotArtifact(p)
  \/ BuildMessages(p)
  \/ RequestArtifact(p)
  \/ RemoteCall(p)
  \/ ResponseArtifact(p)
  \/ CostUpdate(p)
  \/ ParseResponse(p)
  \/ ParsedArtifact(p)

\* The prompt and the Step each caller works with.
PromptOf(p) == IF p = "inv1" THEN "Find the login button" ELSE "Click submit"
StepOf(p) == IF p = "inv1" THEN Step1 ELSE Step2

\* A call of a resolved handler with any arguments.
InvokeAny(p) ==
  \E h \in handlers, step \in StepChoices,
     screenshots \in ScreenshotChoices, parameters \in ParameterChoices :
    Invoke(p, h, PromptOf(p), step, screenshots, parameters)

\* A call with one representative of each kind of argument.
InvokeBasic(p) ==
  \E h \in handlers, step \in {None, Some(StepOf(p))},
     screenshots \in {None, Some(<<"png1">>)},
     parameters \in {None, Some([max_tokens |-> 7])} :
    Invoke(p, h, PromptOf(p), step, screenshots, parameters)

\* A call that leaves every optional argument out.
InvokeDefault(p) ==
  \E h \in handlers : Invoke(p, h, PromptOf(p), None, None, None)

\* One invocation of a resolved handler, with every combination of arguments,
\* while the settings change and handlers are resolved.
Next ==
  \/ \E s \in SettingsChoices : ChangeSettings(s)
  \/ \E k \in ConfigKeys : Resolve(k)
  \/ InvokeAny("inv1")
  \/ HandlerStep("inv1")

Spec == Init /\ [][Next]_vars

\* The same, where the event loop keeps resuming the coroutine: every
\* collaborator call it awaits eventually returns or raises.
SpecLive == Init /\ [][Next]_vars /\ WF_vars(HandlerStep("inv1"))

\* The whole factory: registrations, resolutions, settings changes and one
\* handler invocation, interleaved in every way.
NextRegistry ==
  \/ \E s \in SettingsChoices : ChangeSettings(s)
  \/ \E k \in CustomKeys, h \in CustomHandlers : Register(k, h)
  \/ \E k \in AllKeys : Resolve(k)
  \/ InvokeBasic("inv1")
  \/ HandlerStep("inv1")

SpecRegistry == Init /\ [][NextRegistry]_vars

\* Two invocations that rely on the default parameters, in sequence or
\* overlapping, while the settings change.  Without a Step the coroutine
\* awaits the message builder and the remote call only, and then parses.
NextDefaults ==
  \/ \E s \in SettingsChoices : ChangeSettings(s)
  \/ \E k \in ConfigKeys : Resolve(k)
  \/ \E p \in Procs : InvokeDefault(p)
  \/ \E p \in Procs : BuildMessages(p)
  \/ \E p \in Procs : RemoteCall(p)
  \/ \E p \in Procs : ParseResponse(p)

SpecDefaults == Init /\ [][NextDefaults]_vars

\* A call with the caller's own Step and screenshot; the first caller works
\* with a handler of a vision model, the second with any resolved handler.
ShotOf(p) == IF p = "inv1" THEN "png1" ELSE "png2"
InvokeOwn(p) ==
  \E h \in {x \in handlers : p = "inv1" => x.llm_config.supports_vision} :
    Invoke(p, h, PromptOf(p), Some(StepOf(p)), Some(<<ShotOf(p)>>), None)

\* The callers obtain the handler of each key once and share it.
ResolveOnce(llm_key) ==
  /\ \A h \in handlers : h.llm_key # llm_key
  /\ Resolve(llm_key)

\* Two invocations, each with its own Step, prompt and screenshot, of the same
\* handler or of different handlers, interleaved at their awaits in every way.
NextConcurrent ==
  \/ \E k \in ConfigKeys : ResolveOnce(k)
  \/ \E p \in Procs : InvokeOwn(p)
  \/ \E p \in Procs : HandlerStep(p)

SpecConcurrent == Init /\ [][NextConcurrent]_vars

\* ------------------------------------------------- observing an invocation
Invoked(p) == args[p].handler.some
Raised(p) == outcome[p].some /\ outcome[p].val.kind = "raised"
Returned(p) == outcome[p].some /\ outcome[p].val.kind = "returned"
SuppliedShots(p) == OrEmpty(args[p].screenshots)
KeyOf(p) == args[p].handler.val.llm_key
ConfigOf(p) == args[p].handler.val.llm_config

ArtifactTypes ==
  {"LLM_PROMPT", "SCREENSHOT_LLM", "LLM_REQUEST", "LLM_RESPONSE", "LLM_RESPONSE_PARSED"}

\* The artifacts and cost updates invocation p has created so far.
OwnArtifacts(p) ==
  LET mine(a) == a.by = p
  IN SelectSeq(SubSeq(artifacts, loc[p].art_base + 1, Len(artifacts)), mine)
OwnCosts(p) == SubSeq(costs, loc[p].cost_base + 1, Len(costs))
TypesOf(arts) == [i \in 1..Len(arts) |-> arts[i].artifact_type]

IsPrefix(a, b) == Len(a) <= Len(b) /\ SubSeq(b, 1, Len(a)) = a
Count(seq, x) == Cardinality({i \in 1..Len(seq) : seq[i] = x})
Occurs(seq, x) == \E i \in 1..Len(seq) : seq[i] = x
Repeat(x, n) == [i \in 1..n |-> x]
ArtifactEvents(seq) ==
  LET isArtifact(e) == e \in ArtifactTypes IN SelectSeq(seq, isArtifact)
\* The collaborator calls of p, without the closing "raise".
Calls(p) ==
  IF Raised(p) THEN SubSeq(trace[p], 1, Len(trace[p]) - 1) ELSE trace[p]
\* The call that raised, when p ended by raising.
FailedCall(p) == trace[p][Len(trace[p]) - 1]

ExpectedWithStep(n) ==
  <<"LLM_PROMPT">> \o Repeat("SCREENSHOT_LLM", n) \o
  <<"llm_messages_builder", "LLM_REQUEST", "acompletion", "LLM_RESPONSE",
    "update_step", "parse_api_response", "LLM_RESPONSE_PARSED", "return">>
ExpectedNoStep ==
  <<"llm_messages_builder", "acompletion", "parse_api_response", "return">>
ArtifactsBeforeCall(n) ==
  <<"LLM_PROMPT">> \o Repeat("SCREENSHOT_LLM", n) \o <<"LLM_REQUEST">>
ArtifactsAfterCall == <<"LLM_RESPONSE", "LLM_RESPONSE_PARSED">>

\* ------------------------------------------------------------------ claims

\* C1: with a Step, n screenshots and every collaborator succeeding, the calls
\* of one invocation happen in exactly this order, none repeated or skipped:
\* prompt artifact, n screenshot artifacts in input order, message building,
\* request artifact, remote call, response artifact, cost update, parsing,
\* parsed artifact, return of the parsed result.
C1_StrictOrder ==
  \A p \in Procs :
    (Invoked(p) /\ args[p].step.some /\ ~Raised(p)) =>
      LET n == Len(SuppliedShots(p))
          own == OwnArtifacts(p)
      IN /\ IsPrefix(trace[p], ExpectedWithStep(n))
         /\ TypesOf(own) = ArtifactEvents(trace[p])
         /\ \A i \in 1..n : Len(own) >= 1 + i => own[1 + i].data = SuppliedShots(p)[i]
         /\ Len(remote[p]) = Count(trace[p], "acompletion")
         /\ Len(OwnCosts(p)) = Count(trace[p], "update_step")
         /\ Returned(p) =>
              /\ trace[p] = ExpectedWithStep(n)
              /\ outcome[p].val.value = parse_api_response(loc[p].response.val).value

C1_Witness ==
  /\ Returned("inv1")
  /\ args["inv1"].step.some
  /\ SuppliedShots("inv1") = <<"png2", "png1">>
  /\ Len(trace["inv1"]) = 11

\* C2 as claimed: the LLM prompt and screenshot artifacts are created before
\* the remote call, and the LLM request, LLM response and LLM response parsed
\* artifacts only after it.
C2_RequestAfterRemoteCall ==
  \A p \in Procs :
    (Invoked(p) /\ args[p].step.some) =>
      LET n == Len(SuppliedShots(p))
          types == TypesOf(OwnArtifacts(p))
      IN /\ remote[p] = <<>> => IsPrefix(types, <<"LLM_PROMPT">> \o Repeat("SCREENSHOT_LLM", n))
         /\ remote[p] # <<>> =>
              IsPrefix(<<"LLM_PROMPT">> \o Repeat("SCREENSHOT_LLM", n), types)

\* C2 (amended): with a Step, one LLM prompt artifact, one screenshot artifact
\* per supplied screenshot and one LLM request artifact are created before the
\* remote call, in that order; at most one LLM response and one LLM response
\* parsed artifact are created after it, in that order, and both exist when
\* the invocation returns.  Every artifact carries the supplied Step.
C2_ArtifactsAroundRemoteCall ==
  \A p \in Procs :
    (Invoked(p) /\ args[p].step.some) =>
      LET n == Len(SuppliedShots(p))
          own == OwnArtifacts(p)
          types == TypesOf(own)
      IN /\ IsPrefix(types, ArtifactsBeforeCall(n) \o ArtifactsAfterCall)
         /\ remote[p] = <<>> => IsPrefix(types, ArtifactsBeforeCall(n))
         /\ remote[p] # <<>> => IsPrefix(ArtifactsBeforeCall(n), types)
         /\ Returned(p) => types = ArtifactsBeforeCall(n) \o ArtifactsAfterCall
         /\ \A i \in 1..Len(own) : own[i].step = args[p].step

C2_Witness ==
  /\ pc["inv1"] = "update_step"
  /\ Len(SuppliedShots("inv1")) = 2
  /\ TypesOf(OwnArtifacts("inv1")) = ArtifactsBeforeCall(2) \o <<"LLM_RESPONSE">>

\* C3: when the remote completion call raises (a provider error or any other
\* exception), the invocation creates no LLM response artifact, issues no cost
\* update, parses nothing and creates no parsed artifact, and it ends raising
\* LLMProviderError with the handler's provider key, chained from the error
\* the call raised.
RemoteRaised(p) == remote[p] # <<>> /\ remote[p][Len(remote[p])].raised # "none"

C3_RemoteErrorWrapped ==
  \A p \in Procs :
    RemoteRaised(p) =>
      /\ pc[p] = "done"
      /\ Raised(p)
      /\ outcome[p].val.error =
           [type |-> "LLMProviderError", llm_key |-> KeyOf(p),
            cause |-> remote[p][Len(remote[p])].raised]
      /\ Len(remote[p]) = 1
      /\ FailedCall(p) = "acompletion"
      /\ \A e \in {"LLM_RESPONSE", "update_step", "parse_api_response",
                   "LLM_RESPONSE_PARSED", "return"} : ~Occurs(trace[p], e)
      /\ \A i \in 1..Len(OwnArtifacts(p)) :
           OwnArtifacts(p)[i].artifact_type \notin {"LLM_RESPONSE", "LLM_RESPONSE_PARSED"}
      /\ OwnCosts(p) = <<>>

C3_Witness ==
  /\ RemoteRaised("inv1")
  /\ remote["inv1"][1].raised = "TimeoutError"
  /\ args["inv1"].step.some
  /\ outcome["inv1"].val.error.cause = "TimeoutError"

\* C4: without a Step an invocation creates no artifact and issues no cost
\* update, whatever the prompt, screenshots and parameters; it still builds
\* the messages, makes exactly one remote call and, when that succeeds, parses
\* the response and returns the parser's result.
C4_NoStepNoSideEffects ==
  \A p \in Procs :
    (Invoked(p) /\ ~args[p].step.some) =>
      /\ OwnArtifacts(p) = <<>>
      /\ OwnCosts(p) = <<>>
      /\ ArtifactEvents(trace[p]) = <<>>
      /\ ~Occurs(trace[p], "update_step")
      /\ IsPrefix(Calls(p), ExpectedNoStep)
      /\ Len(remote[p]) = Count(trace[p], "acompletion")
      /\ Returned(p) =>
           /\ trace[p] = ExpectedNoStep
           /\ Len(remote[p]) = 1
           /\ outcome[p].val.value = parse_api_response(loc[p].response.val).value

C4_Witness ==
  /\ Returned("inv1")
  /\ ~args["inv1"].step.some
  /\ Len(SuppliedShots("inv1")) = 2
  /\ args["inv1"].parameters = Some([max_tokens |-> 7])

\* C5: when the resolved configuration does not support vision, the message
\* builder is called without screenshots in every invocation, whatever the
\* caller supplied and with or without a Step, so the messages of the remote
\* call hold the text prompt alone.
TextOnly(prompt) ==
  <<[role |-> "user", content |-> <<[type |-> "text", text |-> prompt]>>]>>

C5_NoVisionNoScreenshots ==
  \A p \in Procs :
    (Invoked(p) /\ ~ConfigOf(p).supports_vision) =>
      /\ Occurs(trace[p], "llm_messages_builder") => loc[p].screenshots = None
      /\ loc[p].messages.some => loc[p].messages.val = TextOnly(args[p].prompt.val)
      /\ \A i \in 1..Len(remote[p]) :
           remote[p][i].call.messages = TextOnly(args[p].prompt.val)

C5_Witness ==
  /\ Invoked("inv1")
  /\ ~ConfigOf("inv1").supports_vision
  /\ SuppliedShots("inv1") = <<"png1", "png2">>
  /\ args["inv1"].step.some
  /\ Len(remote["inv1"]) = 1
  /\ TypesOf(OwnArtifacts("inv1")) = ArtifactsBeforeCall(2)

\* C7: a failed artifact write or cost update is not caught: the caller gets
\* that error itself, not LLMProviderError; nothing later in the sequence runs
\* (after a failed LLM request write the remote call is never made); and every
\* artifact written before the failure is still in the store.
C7_CollaboratorFailurePropagates ==
  \A p \in Procs :
    (Raised(p) /\ FailedCall(p) \in ArtifactTypes \cup {"update_step"}) =>
      LET n == Len(SuppliedShots(p))
          before == SubSeq(trace[p], 1, Len(trace[p]) - 2)
      IN /\ pc[p] = "done"
         /\ outcome[p].val.error =
              Exc(IF FailedCall(p) = "update_step" THEN "DatabaseError" ELSE "ArtifactError")
         /\ IsPrefix(Calls(p), ExpectedWithStep(n))
         /\ TypesOf(OwnArtifacts(p)) = ArtifactEvents(before)
         /\ Len(OwnCosts(p)) = Count(before, "update_step")
         /\ FailedCall(p) = "LLM_REQUEST" => remote[p] = <<>>

C7_Witness ==
  /\ Raised("inv1")
  /\ FailedCall("inv1") = "LLM_REQUEST"
  /\ TypesOf(OwnArtifacts("inv1")) = <<"LLM_PROMPT", "SCREENSHOT_LLM", "SCREENSHOT_LLM">>
  /\ remote["inv1"] = <<>>

\* C6: register on a key that is already registered fails with the duplicate
\* provider error and leaves the registry as it was: the key still maps to the
\* handler of its first registration and no other entry changes.
C6_DuplicateRegisterRejected ==
  [][\A k \in CustomKeys, h \in CustomHandlers :
       (Register(k, h) /\ k \in DOMAIN custom_handlers) =>
         /\ last'.result = "DuplicateCustomLLMProviderError"
         /\ custom_handlers' = custom_handlers]_vars

C6_Witness ==
  /\ last = [op |-> "register", key |-> "custom_a",
             result |-> "DuplicateCustomLLMProviderError"]
  /\ DOMAIN custom_handlers = CustomKeys
  /\ custom_handlers["custom_a"] = "handlerA"
  /\ custom_handlers["custom_b"] = "handlerB"

\* C8: an invocation without parameters passes exactly max_tokens and
\* temperature (next to model and messages) to the remote call, with the
\* values the settings hold when the invocation is made; a settings change
\* between two invocations of one handler shows in the second.
DefaultsOf(s) ==
  [max_tokens |-> s.LLM_CONFIG_MAX_TOKENS, temperature |-> s.LLM_CONFIG_TEMPERATURE]

C8_DefaultsReadAtInvocation ==
  \A p \in Procs :
    (Invoked(p) /\ ~args[p].parameters.some) =>
      \A i \in 1..Len(remote[p]) :
        /\ DOMAIN remote[p][i].call.kwargs = {"max_tokens", "temperature"}
        /\ remote[p][i].call.kwargs = DefaultsOf(args[p].settings.val)
        /\ DOMAIN remote[p][i].call = {"model", "messages", "kwargs"}

C8_Witness ==
  /\ pc["inv1"] = "done" /\ pc["inv2"] = "done"
  /\ args["inv1"].handler = args["inv2"].handler
  /\ Len(remote["inv1"]) = 1 /\ Len(remote["inv2"]) = 1
  /\ remote["inv1"][1].call.kwargs = [max_tokens |-> 500, temperature |-> 1]
  /\ remote["inv2"][1].call.kwargs = [max_tokens |-> 800, temperature |-> 7]

\* C9: resolve returns a handler for every key of the configuration registry
\* and fails with the configuration-not-found error for every other key; the
\* failure happens at resolve time (no handler, no artifact write, no remote
\* call, no cost update), and resolve never changes the custom-handler
\* registry.
C9_ResolveByConfiguration ==
  [][\A k \in AllKeys :
       Resolve(k) =>
         /\ k \in DOMAIN Configs =>
              /\ last'.result = "none"
              /\ [llm_key |-> k, llm_config |-> Configs[k]] \in handlers'
         /\ k \notin DOMAIN Configs =>
              /\ last'.result = "ConfigurationNotFoundError"
              /\ handlers' = handlers
         /\ \A h \in handlers' : h.llm_key \in DOMAIN Configs
         /\ UNCHANGED <<custom_handlers, artifacts, costs, remote, trace, pc>>]_vars

C9_Witness ==
  /\ last = [op |-> "resolve", key |-> "NO_SUCH_LLM",
             result |-> "ConfigurationNotFoundError"]
  /\ handlers = {[llm_key |-> "OPENAI_GPT4V", llm_config |-> Configs["OPENAI_GPT4V"]]}
  /\ DOMAIN custom_handlers = {"custom_b"}
  /\ pc["inv1"] = "acompletion"

\* C10: under every interleaving of register calls, resolve calls and handler
\* invocations the custom-handler registry is append-only and write-once: an
\* entry is never overwritten or removed, and the registry changes only by a
\* successful register, which adds the given handler under a key that was not
\* registered.
C10_RegistryWriteOnce ==
  [][/\ \A k \in DOMAIN custom_handlers :
          k \in DOMAIN custom_handlers' /\ custom_handlers'[k] = custom_handlers[k]
     /\ custom_handlers' # custom_handlers =>
          \E k \in CustomKeys, h \in CustomHandlers :
            /\ Register(k, h)
            /\ k \notin DOMAIN custom_handlers
            /\ DOMAIN custom_handlers' = DOMAIN custom_handlers \cup {k}
            /\ custom_handlers'[k] = h
            /\ last'.result = "none"]_vars

C10_Witness ==
  /\ custom_handlers = [k \in CustomKeys |-> IF k = "custom_a" THEN "handlerB" ELSE "handlerA"]
  /\ last.op = "resolve"
  /\ Returned("inv1")

\* C11: an invocation makes at most one remote completion call, with no retry
\* and no fallback; when that call fails the invocation ends with the error
\* and makes no further collaborator call (no artifact write, no cost update,
\* no parse).
C11_SingleRemoteCall ==
  \A p \in Procs :
    /\ Len(remote[p]) <= 1
    /\ Count(trace[p], "acompletion") = Len(remote[p])
    /\ RemoteRaised(p) =>
         /\ pc[p] = "done"
         /\ Raised(p)
         /\ trace[p][Len(trace[p])] = "raise"
         /\ trace[p][Len(trace[p]) - 1] = "acompletion"
         /\ Count(trace[p], "raise") = 1
         /\ args[p].step.some =>
              TypesOf(OwnArtifacts(p)) = ArtifactsBeforeCall(Len(SuppliedShots(p)))
         /\ ~args[p].step.some => OwnArtifacts(p) = <<>>
         /\ OwnCosts(p) = <<>>
         /\ ~loc[p].response.some /\ ~loc[p].parsed_response.some

C11_Witness ==
  /\ RemoteRaised("inv1")
  /\ remote["inv1"][1].raised = "OpenAIError"
  /\ ~args["inv1"].step.some
  /\ trace["inv1"] = <<"llm_messages_builder", "acompletion", "raise">>

\* C12: concurrent invocations that interleave at their awaits are
\* independent: under every interleaving the calls of each invocation form
\* the same strict sequence as when it runs alone, each artifact and cost
\* update carries the Step of the invocation that produced it and is computed
\* from that invocation's own arguments and response, and each invocation
\* returns the parse of its own response.
ExpectedData(p, type, i) ==
  LET messages == llm_messages_builder(args[p].prompt.val,
                                       VisionFilter(ConfigOf(p), args[p].screenshots))
      parameters == IF args[p].parameters.some THEN args[p].parameters.val
                    ELSE DefaultsOf(args[p].settings.val)
  IN CASE type = "LLM_PROMPT" -> Utf8(args[p].prompt.val)
       [] type = "SCREENSHOT_LLM" -> SuppliedShots(p)[i - 1]
       [] type = "LLM_REQUEST" ->
            JsonBytes(RequestPayload(ConfigOf(p), messages, parameters))
       [] type = "LLM_RESPONSE" -> ModelDumpJson(loc[p].response.val)
       [] type = "LLM_RESPONSE_PARSED" ->
            JsonBytes(parse_api_response(loc[p].response.val).value)
CostsOf(p) ==
  LET mine(c) == c.step_id = args[p].step.val.step_id IN SelectSeq(costs, mine)

C12_InvocationsIndependent ==
  /\ \A i \in 1..Len(artifacts) : Invoked(artifacts[i].by)
  /\ \A i \in 1..Len(costs) :
       \E p \in Procs : Invoked(p) /\ costs[i].step_id = args[p].step.val.step_id
  /\ \A p \in Procs :
       Invoked(p) =>
         LET own == OwnArtifacts(p)
             n == Len(SuppliedShots(p))
         IN /\ IsPrefix(IF Raised(p) /\ FailedCall(p) = "completion_cost"
                        THEN SubSeq(trace[p], 1, Len(trace[p]) - 2) ELSE Calls(p),
                        ExpectedWithStep(n))
            /\ IsPrefix(TypesOf(own), ArtifactsBeforeCall(n) \o ArtifactsAfterCall)
            /\ Len(own) = Len(ArtifactEvents(trace[p]))
                           - (IF Raised(p) /\ FailedCall(p) \in ArtifactTypes THEN 1 ELSE 0)
            /\ \A i \in 1..Len(own) :
                 /\ own[i].step = args[p].step
                 /\ own[i].data = ExpectedData(p, own[i].artifact_type, i)
            /\ Len(CostsOf(p)) <= 1
            /\ \A i \in 1..Len(CostsOf(p)) :
                 CostsOf(p)[i] =
                   [task_id |-> args[p].step.val.task_id,
                    step_id |-> args[p].step.val.step_id,
                    organization_id |-> args[p].step.val.organization_id,
                    incremental_cost |-> loc[p].response.val.cost]
            /\ Occurs(Calls(p), "parse_api_response") => Len(CostsOf(p)) = 1
            /\ \A i \in 1..Len(remote[p]) :
                 /\ remote[p][i].call.model = ConfigOf(p).model_name
                 /\ remote[p][i].call.messages =
                      llm_messages_builder(args[p].prompt.val,
                                           VisionFilter(ConfigOf(p), args[p].screenshots))
            /\ Returned(p) =>
                 /\ trace[p] = ExpectedWithStep(n)
                 /\ outcome[p].val.value = [parsed |-> loc[p].response.val.content]

C12_Witness ==
  /\ Returned("inv1") /\ Returned("inv2")
  /\ args["inv1"].handler = args["inv2"].handler
  /\ loc["inv1"].response # loc["inv2"].response
  /\ Len(artifacts) = 10
  /\ \A i \in 1..10 : artifacts[i].by = (IF i % 2 = 1 THEN "inv2" ELSE "inv1")
  /\ costs[1].step_id = "s2" /\ costs[2].step_id = "s1"

\* C13 as claimed: a cost update is issued exactly once in an invocation if
\* and only if a Step is supplied, the remote call succeeded and the LLM
\* response artifact write succeeded.
ResponseWritten(p) ==
  \E i \in 1..Len(OwnArtifacts(p)) : OwnArtifacts(p)[i].artifact_type = "LLM_RESPONSE"
RemoteSucceeded(p) == remote[p] # <<>> /\ ~RemoteRaised(p)

C13_CostIffResponseWritten ==
  \A p \in Procs :
    (Invoked(p) /\ pc[p] = "done") =>
      (Count(trace[p], "update_step") = 1
         <=> (args[p].step.some /\ RemoteSucceeded(p) /\ ResponseWritten(p)))

\* C13 (amended): a cost update is issued at most once, and it is issued if
\* and only if a Step is supplied, the remote call succeeded, the LLM response
\* artifact write succeeded and the cost computation did not raise; it carries
\* that Step's task id, step id and organization id and the cost of the
\* response, and it comes right after the LLM response artifact write and
\* before the response is parsed.
C13_CostUpdateOnce ==
  \A p \in Procs :
    Invoked(p) =>
      LET t == trace[p] IN
      /\ Count(t, "update_step") <= 1
      /\ \A i \in 1..Len(t) :
           t[i] = "update_step" =>
             /\ args[p].step.some /\ RemoteSucceeded(p) /\ ResponseWritten(p)
             /\ i > 1 /\ t[i - 1] = "LLM_RESPONSE"
             /\ \A j \in 1..i : t[j] # "parse_api_response"
      /\ Occurs(t, "parse_api_response") /\ args[p].step.some => Occurs(t, "update_step")
      /\ pc[p] = "done" =>
           (Occurs(t, "update_step")
              <=> /\ args[p].step.some /\ RemoteSucceeded(p) /\ ResponseWritten(p)
                  /\ ~(Raised(p) /\ FailedCall(p) = "completion_cost"))
      /\ Len(OwnCosts(p)) <= Count(t, "update_step")
      /\ \A i \in 1..Len(OwnCosts(p)) :
           OwnCosts(p)[i] =
             [task_id |-> args[p].step.val.task_id,
              step_id |-> args[p].step.val.step_id,
              organization_id |-> args[p].step.val.organization_id,
              incremental_cost |-> loc[p].response.val.cost]

C13_Witness ==
  /\ pc["inv1"] = "parse_api_response"
  /\ args["inv1"].step = Some(Step2)
  /\ OwnCosts("inv1") = <<[task_id |-> "t2", step_id |-> "s2",
                           organization_id |-> "o2", incremental_cost |-> 5]>>
  /\ trace["inv1"][Len(trace["inv1"])] = "update_step"
  /\ trace["inv1"][Len(trace["inv1"]) - 1] = "LLM_RESPONSE"

\* C14: with a Step, the LLM request artifact is written before the remote
\* call and records the model name, the messages and the parameters that the
\* remote call is then given; when vision is unsupported neither of them
\* carries a supplied screenshot.
RequestArtifactOf(p) == OwnArtifacts(p)[Len(SuppliedShots(p)) + 2]
RecordedRequest(p) == RequestArtifactOf(p).data.text.json

RequestMatchesCall(p) ==
  \A i \in 1..Len(remote[p]) :
    LET call == remote[p][i].call
        recorded == RecordedRequest(p)
    IN /\ Len(OwnArtifacts(p)) >= Len(SuppliedShots(p)) + 2
       /\ RequestArtifactOf(p).artifact_type = "LLM_REQUEST"
       /\ RequestArtifactOf(p).data = JsonBytes(recorded)
       /\ recorded["model"] = call.model
       /\ recorded["messages"] = call.messages
       /\ \A k \in DOMAIN call.kwargs : recorded[k] = call.kwargs[k]
       /\ DOMAIN recorded = {"model", "messages"} \cup DOMAIN call.kwargs
       /\ ~ConfigOf(p).supports_vision =>
            /\ call.messages = TextOnly(args[p].prompt.val)
            /\ recorded["messages"] = TextOnly(args[p].prompt.val)

C14_RequestArtifactMatchesCall ==
  \A p \in Procs : (Invoked(p) /\ args[p].step.some) => RequestMatchesCall(p)

\* C14 holds of every call whose parameters name neither model nor messages.
C14_MatchesWithoutClash ==
  \A p \in Procs :
    (/\ Invoked(p) /\ args[p].step.some
     /\ DOMAIN loc[p].parameters.val \cap {"model", "messages"} = {})
      => RequestMatchesCall(p)

\* C15: when every collaborator call eventually returns or raises, an
\* invocation eventually ends, returning the parsed result or raising; while
\* the remote call has not responded the invocation stays at that call, since
\* nothing but the provider's answer (a response or an error) ends the wait.
EndsProperly(p) ==
  pc[p] = "done" =>
    \/ Raised(p)
    \/ /\ Returned(p)
       /\ parse_api_response(loc[p].response.val).ok
       /\ outcome[p].val.value = parse_api_response(loc[p].response.val).value

WaitEndsOnlyByAnswer(p) ==
  (pc[p] = "acompletion" /\ pc'[p] # "acompletion") =>
     /\ Len(remote'[p]) = Len(remote[p]) + 1
     /\ remote'[p][Len(remote'[p])].raised \in {"none", "TypeError"} \cup RemoteErrors

C15_Terminates ==
  /\ Invoked("inv1") ~> (pc["inv1"] = "done")
  /\ [](EndsProperly("inv1"))
  /\ [][WaitEndsOnlyByAnswer("inv1")]_vars

C15_Witness ==
  /\ Returned("inv1")
  /\ args["inv1"].step.some
  /\ Len(SuppliedShots("inv1")) = MaxShots
  /\ Len(remote["inv1"]) = 1
  /\ trace["inv1"][Len(trace["inv1"])] = "return"

\* C16: with a Step, the screenshot artifacts are the supplied screenshots, one
\* each and in input order, whether or not the configuration supports vision:
\* all of them are written by the time the message builder is called, and when
\* vision is unsupported none of them is in the messages sent to the model.
ScreenshotArtifacts(p) ==
  LET shot(a) == a.artifact_type = "SCREENSHOT_LLM"
      arts == SelectSeq(OwnArtifacts(p), shot)
  IN [i \in 1..Len(arts) |-> arts[i].data]

C16_ScreenshotsPersistedWithoutVision ==
  \A p \in Procs :
    (Invoked(p) /\ args[p].step.some) =>
      /\ IsPrefix(ScreenshotArtifacts(p), SuppliedShots(p))
      /\ Occurs(trace[p], "llm_messages_builder") =>
           /\ ScreenshotArtifacts(p) = SuppliedShots(p)
           /\ Count(trace[p], "SCREENSHOT_LLM") = Len(SuppliedShots(p))
      /\ ~ConfigOf(p).supports_vision =>
           \A i \in 1..Len(remote[p]) :
             remote[p][i].call.messages = TextOnly(args[p].prompt.val)

C16_Witness ==
  /\ Invoked("inv1")
  /\ args["inv1"].step.some
  /\ ~ConfigOf("inv1").supports_vision
  /\ SuppliedShots("inv1") = <<"png2", "png1">>
  /\ ScreenshotArtifacts("inv1") = <<"png2", "png1">>
  /\ RemoteSucceeded("inv1")
  /\ remote["inv1"][1].call.messages = TextOnly(args["inv1"].prompt.val)

\* C17: when the response parser raises after a successful remote call made
\* with a Step, the LLM response artifact and the one cost update of the
\* invocation are in place, no parsed-response artifact exists, and the caller
\* gets the parser's own error, not LLMProviderError.
C17_ParserFailureKeepsRecords ==
  \A p \in Procs :
    (/\ Raised(p) /\ FailedCall(p) = "parse_api_response"
     /\ args[p].step.some /\ RemoteSucceeded(p)) =>
      /\ outcome[p].val.error = Exc(parse_api_response(loc[p].response.val).error)
      /\ outcome[p].val.error.type # "LLMProviderError"
      /\ TypesOf(OwnArtifacts(p)) =
           ArtifactsBeforeCall(Len(SuppliedShots(p))) \o <<"LLM_RESPONSE">>
      /\ OwnArtifacts(p)[Len(OwnArtifacts(p))].data = ModelDumpJson(loc[p].response.val)
      /\ OwnCosts(p) =
           <<CostUpdateFor(args[p].step.val, completion_cost(loc[p].response.val))>>
      /\ ~Occurs(trace[p], "LLM_RESPONSE_PARSED")

C17_Witness ==
  /\ Raised("inv1")
  /\ FailedCall("inv1") = "parse_api_response"
  /\ args["inv1"].step.some
  /\ RemoteSucceeded("inv1")
  /\ Len(OwnCosts("inv1")) = 1
  /\ ResponseWritten("inv1")

\* C18: when the caller passes a parameters mapping, the empty one included,
\* the handler works with exactly that mapping: the options of the remote call
\* and the entries the LLM request artifact adds to model and messages are the
\* caller's, with no default filled in; the defaults are the options only when
\* parameters is absent.
OptionsUsed(p) ==
  IF args[p].parameters.some THEN args[p].parameters.val
  ELSE DefaultsOf(args[p].settings.val)

C18_ExplicitParametersUsedAsGiven ==
  \A p \in Procs :
    Invoked(p) =>
      /\ loc[p].parameters.val = OptionsUsed(p)
      /\ \A i \in 1..Len(remote[p]) : remote[p][i].call.kwargs = OptionsUsed(p)
      /\ (args[p].step.some /\ Occurs(TypesOf(OwnArtifacts(p)), "LLM_REQUEST")) =>
           /\ DOMAIN RecordedRequest(p) = {"model", "messages"} \cup DOMAIN OptionsUsed(p)
           /\ \A k \in DOMAIN OptionsUsed(p) : RecordedRequest(p)[k] = OptionsUsed(p)[k]

C18_Witness ==
  /\ Invoked("inv1")
  /\ args["inv1"].parameters = Some(EmptyDict)
  /\ args["inv1"].step.some
  /\ RemoteSucceeded("inv1")
  /\ remote["inv1"][1].call.kwargs = EmptyDict
  /\ DOMAIN RecordedRequest("inv1") = {"model", "messages"}

====
